---- MODULE Spec2Model ----
(***************************************************************************)
(* State-machine model of src/main.py: the SQLite store (foods, logs,      *)
(* goals), the five tools add_food, log_food, get_meals,                   *)
(* set_daily_calorie_goal, today_summary, and init_db.                     *)
(*                                                                         *)
(* Numbers: calories are INTEGER, the other nutrients and the quantity are *)
(* REAL in the code.  The model draws all of them from small sets of       *)
(* integers, so products and sums are exact; floating-point rounding is    *)
(* outside the model.                                                      *)
(* get_db() (lines 36-39) opens a connection and issues no                 *)
(* PRAGMA foreign_keys, so the FOREIGN KEY clause of logs is declared but  *)
(* not enforced: no action below is guarded by it.                         *)
(***************************************************************************)
EXTENDS Integers, Sequences, FiniteSets, TLC

VARIABLES
    foods,      \* table foods: set of rows [id, name, calories, protein, carbs, fat]
    foodSeq,    \* sqlite_sequence entry of foods (AUTOINCREMENT): largest id ever used
    logs,       \* table logs, in rowid order: sequence of rows [id, food_id, quantity, log_date, meal]
    goals,      \* table goals: set of rows [id, daily_calories]
    today,      \* the calendar day date.today() returns (a day of January 2024)
    conn,       \* a log_food call between its SELECT and its INSERT, or Idle
    ret,        \* what the latest step returned: [op, arguments, result]
    hist,       \* history: hist[i] is the food name under which logs[i] was logged
    goalArg     \* history: <<argument of the latest set_daily_calorie_goal>>, or <<>>

vars == <<foods, foodSeq, logs, goals, today, conn, ret, hist, goalArg>>

----------------------------------------------------------------------------
(* Bounds of the model *)

MaxLogs == 2        \* log_food is disabled once logs holds this many rows
MaxFoodSeq == 2     \* add_food is disabled once this many food ids were used

(* Program constants *)

DefaultGoal == 2000
GoalId == 1

(* Python's None / SQL NULL: a token different from every string drawn below *)
None == "<None>"

Idle == [state |-> "idle"]

(* Inputs *)

Names == {"apple", "Apple"}
Nutrients ==
    { [calories |-> 100, protein |-> 1, carbs |-> 20, fat |-> 0],
      [calories |-> 800, protein |-> 30, carbs |-> 5, fat |-> 40] }
(* log_food's quantity and meal; a mealArg of None is a call that gives no  *)
(* meal.  Quantities are whole servings, one of them negative.              *)
LogArgs ==
    { [quantity |-> 2, mealArg |-> "breakfast"],
      [quantity |-> -1, mealArg |-> ""],
      [quantity |-> 2, mealArg |-> "unspecified"],
      [quantity |-> 2, mealArg |-> None] }
GoalArgs == {1500}

(* the days date.today() runs through *)
Days == {1, 2}

DayText == <<"1", "2", "3", "4", "5", "6", "7", "8", "9">>

(* date.isoformat() for a day of January 2024 *)
IsoFormat(d) == "2024-01-0" \o DayText[d]

(* what get_meals is called with: every ISO date of the model, or None for *)
(* a call that gives no date                                                *)
DateArgs == {IsoFormat(d) : d \in Days} \cup {None}

----------------------------------------------------------------------------
(* init_db *)

(* ALTER TABLE logs ADD COLUMN meal TEXT: rows written before the column    *)
(* existed read NULL in it; rows that have it are left alone                *)
AddMealColumn(ls) ==
    [i \in DOMAIN ls |->
        IF "meal" \in DOMAIN ls[i] THEN ls[i] ELSE ls[i] @@ [meal |-> None]]

(* Seeded fault: INSERT OR REPLACE in place of INSERT OR IGNORE *)
InsertOrReplaceGoal(gs) ==
    {g \in gs : g.id # GoalId} \cup {[id |-> GoalId, daily_calories |-> DefaultGoal]}

(* INSERT OR IGNORE INTO goals (id, daily_calories) VALUES (1, 2000) *)
InsertOrIgnoreGoal(gs) ==
    IF \E g \in gs : g.id = GoalId
    THEN gs
    ELSE gs \cup {[id |-> GoalId, daily_calories |-> DefaultGoal]}

(* init_db on a database file db = [foods, foodSeq, logs, goals]:           *)
(* CREATE TABLE IF NOT EXISTS keeps every existing row                      *)
init_db(db) ==
    [foods |-> db.foods,
     foodSeq |-> db.foodSeq,
     logs |-> AddMealColumn(db.logs),
     goals |-> InsertOrIgnoreGoal(db.goals)]

(* The database file the first import finds: no table, no row *)
FreshDb == [foods |-> {}, foodSeq |-> 0, logs |-> <<>>, goals |-> {}]

(* The state after the module is imported: init_db() of line 93 has run *)
Init ==
    LET db == init_db(FreshDb) IN
    /\ foods = db.foods
    /\ foodSeq = db.foodSeq
    /\ logs = db.logs
    /\ goals = db.goals
    /\ hist = <<>>
    /\ today = 1
    /\ conn = Idle
    /\ ret = [op |-> "init_db"]
    /\ goalArg = <<>>

(* init_db() run again: the process is restarted on its own database file *)
InitDb ==
    LET db == init_db([foods |-> foods, foodSeq |-> foodSeq,
                       logs |-> logs, goals |-> goals]) IN
    /\ conn = Idle
    /\ foods' = db.foods
    /\ foodSeq' = db.foodSeq
    /\ logs' = db.logs
    /\ goals' = db.goals
    /\ ret' = [op |-> "init_db"]
    /\ UNCHANGED <<today, conn, hist, goalArg>>

----------------------------------------------------------------------------
(* add_food *)

(* Seeded fault: INSERT OR IGNORE in place of INSERT OR REPLACE; a row of   *)
(* that name is kept as it is                                               *)
InsertOrIgnoreFood(name, nut) ==
    IF \E f \in foods : f.name = name
    THEN foods
    ELSE foods \cup {[id |-> foodSeq + 1, name |-> name, calories |-> nut.calories,
                      protein |-> nut.protein, carbs |-> nut.carbs, fat |-> nut.fat]}

(* INSERT OR REPLACE INTO foods (name, ...) VALUES (...): the row that      *)
(* conflicts on UNIQUE(name) is deleted, and a new row is inserted whose id *)
(* AUTOINCREMENT draws above every id ever used                             *)
InsertOrReplaceFood(name, nut) ==
    {f \in foods : f.name # name}
        \cup {[id |-> foodSeq + 1, name |-> name, calories |-> nut.calories,
               protein |-> nut.protein, carbs |-> nut.carbs, fat |-> nut.fat]}

AddFood ==
    \E name \in Names, nut \in Nutrients :
        /\ foodSeq < MaxFoodSeq
        /\ foods' = InsertOrReplaceFood(name, nut)
        /\ foodSeq' = foodSeq + 1
        /\ ret' = [op |-> "add_food", name |-> name, nut |-> nut,
                   result |-> [status |-> "ok", food |-> name]]
        /\ UNCHANGED <<logs, goals, today, conn, hist, goalArg>>

----------------------------------------------------------------------------
(* log_food *)

(* Seeded fault: the SELECT without its WHERE clause *)
SelectAnyFoodId(name) == {f.id : f \in foods}

(* SELECT id FROM foods WHERE name = ? *)
SelectFoodId(name) == {f.id : f \in {g \in foods : g.name = name}}

(* the meal parameter: "unspecified" when the caller gives none *)
MealParam(mealArg) == IF mealArg = None THEN "unspecified" ELSE mealArg

(* INSERT INTO logs (food_id, quantity, log_date, meal) VALUES (?, ?, ?, ?) *)
InsertLog(food_id, quantity, meal) ==
    Append(logs, [id |-> Len(logs) + 1, food_id |-> food_id,
                  quantity |-> quantity, log_date |-> IsoFormat(today),
                  meal |-> meal])

LogFoodError == [status |-> "error", message |-> "Food not found"]
LogFoodOk(name, quantity, meal) ==
    [status |-> "ok", food |-> name, quantity |-> quantity, meal |-> meal]

(* log_food run by a single caller: nothing comes between its statements *)
LogFood ==
    \E name \in Names, a \in LogArgs :
        LET quantity == a.quantity
            mealArg == a.mealArg
            meal == MealParam(mealArg)
            ids == SelectFoodId(name) IN
        /\ conn = Idle
        /\ IF ids = {}
           THEN /\ ret' = [op |-> "log_food", name |-> name, quantity |-> quantity,
                           mealArg |-> mealArg, result |-> LogFoodError]
                /\ UNCHANGED <<logs, hist>>
           ELSE /\ Len(logs) < MaxLogs
                /\ logs' = InsertLog(CHOOSE id \in ids : TRUE, quantity, meal)
                /\ hist' = Append(hist, name)
                /\ ret' = [op |-> "log_food", name |-> name, quantity |-> quantity,
                           mealArg |-> mealArg,
                           result |-> LogFoodOk(name, quantity, meal)]
        /\ UNCHANGED <<foods, foodSeq, goals, today, conn, goalArg>>

(* log_food on its own connection, other connections running: lines 124-130 *)
LogFoodSelect ==
    \E name \in Names, a \in LogArgs :
        LET quantity == a.quantity
            mealArg == a.mealArg
            ids == SelectFoodId(name) IN
        /\ conn = Idle
        /\ IF ids = {}
           THEN /\ ret' = [op |-> "log_food", name |-> name, quantity |-> quantity,
                           mealArg |-> mealArg, result |-> LogFoodError]
                /\ conn' = conn
           ELSE /\ Len(logs) < MaxLogs
                /\ conn' = [state |-> "selected", name |-> name,
                            quantity |-> quantity, mealArg |-> mealArg,
                            row_id |-> CHOOSE id \in ids : TRUE]
                /\ ret' = [op |-> "none"]
        /\ UNCHANGED <<foods, foodSeq, logs, goals, today, hist, goalArg>>

(* lines 132-146, with the id the SELECT returned *)
LogFoodInsert ==
    /\ conn # Idle
    /\ logs' = InsertLog(conn.row_id, conn.quantity, MealParam(conn.mealArg))
    /\ hist' = Append(hist, conn.name)
    /\ ret' = [op |-> "log_food", name |-> conn.name, quantity |-> conn.quantity,
               mealArg |-> conn.mealArg,
               result |-> LogFoodOk(conn.name, conn.quantity, MealParam(conn.mealArg))]
    /\ conn' = Idle
    /\ UNCHANGED <<foods, foodSeq, goals, today, goalArg>>

----------------------------------------------------------------------------
(* The join of both queries *)

(* FROM logs l JOIN foods f ON l.food_id = f.id WHERE l.log_date = ?:       *)
(* the pairs [l, f], in the order of the log rows from row i on.  A log row *)
(* whose food_id is the id of no foods row yields no pair.                  *)
RECURSIVE JoinFrom(_, _)
JoinFrom(i, d) ==
    IF i > Len(logs)
    THEN <<>>
    ELSE LET l == logs[i]
             fs == {f \in foods : f.id = l.food_id}
             here == IF l.log_date = d /\ fs # {}
                     THEN <<[l |-> l, f |-> CHOOSE f \in fs : TRUE]>>
                     ELSE <<>>
         IN here \o JoinFrom(i + 1, d)

JoinLogsFoods(d) == JoinFrom(1, d)

----------------------------------------------------------------------------
(* get_meals *)

(* r["meal"] or "unspecified" *)
MealKey(meal) == IF meal = None \/ meal = "" THEN "unspecified" ELSE meal

(* the dictionary appended for one row of the SELECT *)
EntryView(p) ==
    [log_id |-> p.l.id,
     food |-> p.f.name,
     quantity |-> p.l.quantity,
     calories_per_serving |-> p.f.calories,
     protein_per_serving |-> p.f.protein,
     carbs_per_serving |-> p.f.carbs,
     fat_per_serving |-> p.f.fat,
     calories_total |-> p.f.calories * p.l.quantity]

(* Seeded fault: the default date computed once, when the module is loaded *)
DateParamAtImport(date_str) ==
    IF date_str = None \/ date_str = "" THEN IsoFormat(1) ELSE date_str

(* if not date_str: date_str = date.today().isoformat() *)
DateParam(date_str) ==
    IF date_str = None \/ date_str = "" THEN IsoFormat(today) ELSE date_str

(* meals.setdefault(meal_name, []).append(view), over the rows in order;    *)
(* the order of the dictionary's keys is not modelled                       *)
GroupByMeal(rows) ==
    [k \in {MealKey(rows[i].l.meal) : i \in DOMAIN rows} |->
        LET grp == SelectSeq(rows, LAMBDA p : MealKey(p.l.meal) = k)
        IN [j \in DOMAIN grp |-> EntryView(grp[j])]]

get_meals(date_str) ==
    LET d == DateParam(date_str)
    IN [date |-> d, meals |-> GroupByMeal(JoinLogsFoods(d))]

GetMeals ==
    \E date_str \in DateArgs :
        /\ conn = Idle
        /\ ret' = [op |-> "get_meals", date_str |-> date_str,
                   result |-> get_meals(date_str)]
        /\ UNCHANGED <<foods, foodSeq, logs, goals, today, conn, hist, goalArg>>

----------------------------------------------------------------------------
(* set_daily_calorie_goal *)

(* Seeded fault: the UPDATE matches no row *)
UpdateNoGoal(calories) == goals

(* UPDATE goals SET daily_calories = ? WHERE id = 1 *)
UpdateGoal(calories) ==
    {IF g.id = GoalId THEN [g EXCEPT !.daily_calories = calories] ELSE g :
        g \in goals}

SetDailyCalorieGoal ==
    \E calories \in GoalArgs :
        /\ conn = Idle
        /\ goals' = UpdateGoal(calories)
        /\ goalArg' = <<calories>>
        /\ ret' = [op |-> "set_daily_calorie_goal", calories |-> calories,
                   result |-> [status |-> "ok", daily_calories |-> calories]]
        /\ UNCHANGED <<foods, foodSeq, logs, today, conn, hist>>

----------------------------------------------------------------------------
(* today_summary *)

ZeroTotals == [calories |-> 0, protein |-> 0, carbs |-> 0, fat |-> 0]

(* the loop of lines 227-231 over rows[i..] *)
RECURSIVE SumRows(_, _, _)
SumRows(rows, i, totals) ==
    IF i > Len(rows)
    THEN totals
    ELSE LET p == rows[i] IN
         SumRows(rows, i + 1,
            [calories |-> totals.calories + p.f.calories * p.l.quantity,
             protein |-> totals.protein + p.f.protein * p.l.quantity,
             carbs |-> totals.carbs + p.f.carbs * p.l.quantity,
             fat |-> totals.fat + p.f.fat * p.l.quantity])

(* SELECT daily_calories FROM goals WHERE id = 1, fetchone() *)
SelectGoal == (CHOOSE g \in goals : g.id = GoalId).daily_calories

today_summary ==
    LET totals == SumRows(JoinLogsFoods(IsoFormat(today)), 1, ZeroTotals)
        goal == SelectGoal
    IN [totals |-> totals, goal |-> goal,
        remaining_calories |-> goal - totals.calories]

TodaySummary ==
    /\ conn = Idle
    /\ ret' = [op |-> "today_summary", result |-> today_summary]
    /\ UNCHANGED <<foods, foodSeq, logs, goals, today, conn, hist, goalArg>>

----------------------------------------------------------------------------
(* The calendar: date.today() moves on between calls *)
Tick ==
    /\ today + 1 \in Days
    /\ today' = today + 1
    /\ ret' = [op |-> "none"]
    /\ UNCHANGED <<foods, foodSeq, logs, goals, conn, hist, goalArg>>

----------------------------------------------------------------------------
(* One caller at a time: every tool call runs to its end before the next *)
Next ==
    \/ AddFood
    \/ LogFood
    \/ GetMeals
    \/ SetDailyCalorieGoal
    \/ TodaySummary
    \/ InitDb
    \/ Tick

Spec == Init /\ [][Next]_vars

(* Several callers, each on its own connection.  sqlite3 opens a            *)
(* transaction only before the INSERT, so the SELECT of log_food is a step  *)
(* of its own: once its row is fetched the connection holds no lock, and    *)
(* add_food, one statement and its commit, runs on another connection       *)
(* before the INSERT.  date.today() is read when the INSERT runs.           *)
NextConc ==
    \/ AddFood
    \/ LogFoodSelect
    \/ LogFoodInsert
    \/ Tick

SpecConc == Init /\ [][NextConc]_vars

----------------------------------------------------------------------------
(* Shorthands of the properties below *)

FoodExists(id) == \E f \in foods : f.id = id
LogsOfDate(d) == {i \in DOMAIN logs : logs[i].log_date = d}

(* the views of a get_meals result, as pairs <<key, position>> *)
ViewsOf(meals) ==
    {kj \in (DOMAIN meals) \X DOMAIN logs : kj[2] \in DOMAIN meals[kj[1]]}

UniqueNames(fs) == \A f, g \in fs : f.name = g.name => f = g

NutrientsOf(f) ==
    [calories |-> f.calories, protein |-> f.protein, carbs |-> f.carbs, fat |-> f.fat]

(* sum of g[i] over the indices S *)
RECURSIVE SumOver(_, _)
SumOver(S, g) ==
    IF S = {}
    THEN 0
    ELSE LET i == CHOOSE j \in S : TRUE IN g[i] + SumOver(S \ {i}, g)

----------------------------------------------------------------------------
(* C1: today_summary() returns totals.calories equal to the sum, over every *)
(* log entry of today, of the current calories of the food it was logged    *)
(* under (the values of the latest add_food of that name) times its         *)
(* quantity; remaining_calories = goal - totals.calories; with no entry of  *)
(* today all totals are 0 and remaining_calories = goal.                    *)
C1_SummaryUsesCurrentFood ==
    ret.op = "today_summary" =>
        LET r == ret.result
            idx == LogsOfDate(IsoFormat(today))
            current == [i \in idx |->
                (CHOOSE f \in foods : f.name = hist[i]).calories * logs[i].quantity]
        IN /\ r.totals.calories = SumOver(idx, current)
           /\ r.remaining_calories = r.goal - r.totals.calories
           /\ idx = {} =>
                /\ r.totals = [calories |-> 0, protein |-> 0, carbs |-> 0, fat |-> 0]
                /\ r.remaining_calories = r.goal

----------------------------------------------------------------------------
(* C2: at most one foods row exists per name in every state, and add_food   *)
(* (name, nutrients) leaves exactly one row of that name, holding exactly   *)
(* those nutrients, whether or not the name existed; rows of other names    *)
(* are unchanged.                                                           *)
C2_IdempotentUpsert ==
    /\ UniqueNames(foods)
    /\ [][/\ UniqueNames(foods')
          /\ ret'.op = "add_food" =>
                /\ Cardinality({f \in foods' : f.name = ret'.name}) = 1
                /\ \A f \in foods' : f.name = ret'.name => NutrientsOf(f) = ret'.nut
                /\ {f \in foods' : f.name # ret'.name}
                     = {f \in foods : f.name # ret'.name}]_vars

(* add_food has just replaced the only food: its name was added twice *)
C2_Witness ==
    /\ ret.op = "add_food"
    /\ Cardinality(foods) = 1
    /\ foodSeq = 2

----------------------------------------------------------------------------
(* C3: a food's id is stable across add_food of an existing name, so every  *)
(* log entry's food_id is the id of an existing foods row in every state.   *)
C3_NoOrphanedLogEntry ==
    \A i \in DOMAIN logs : FoodExists(logs[i].food_id)

----------------------------------------------------------------------------
(* C4: log_food of a name no foods row has returns status "error" and       *)
(* leaves foods, logs and goals unchanged; otherwise it returns "ok" and    *)
(* appends exactly one entry with that food's id, the given quantity and    *)
(* meal and today's date, the earlier entries unchanged.                    *)
C4_ReferentialGuard ==
    [][ret'.op = "log_food" =>
        IF ~ \E f \in foods : f.name = ret'.name
        THEN /\ ret'.result.status = "error"
             /\ logs' = logs
             /\ foods' = foods
             /\ goals' = goals
        ELSE /\ ret'.result.status = "ok"
             /\ Len(logs') = Len(logs) + 1
             /\ SubSeq(logs', 1, Len(logs)) = logs
             /\ LET e == logs'[Len(logs')] IN
                  /\ \E f \in foods : f.name = ret'.name /\ f.id = e.food_id
                  /\ e.quantity = ret'.quantity
                  /\ e.meal = (IF ret'.mealArg = None THEN "unspecified"
                               ELSE ret'.mealArg)
                  /\ e.log_date = IsoFormat(today)
             /\ foods' = foods
             /\ goals' = goals]_vars

(* log_food has just refused a name that differs from a stored one *)
C4_Witness ==
    /\ ret.op = "log_food"
    /\ ret.result.status = "error"
    /\ foods # {}
    /\ Len(logs) > 0

----------------------------------------------------------------------------
----------------------------------------------------------------------------
(* C6: an entry logged on date d appears in get_meals(d') only when d' = d  *)
(* and counts in today_summary only while today is d; get_meals without a   *)
(* date is get_meals(today).                                                *)
C6_DateScoping ==
    /\ ret.op = "get_meals" =>
        LET d == IF ret.date_str = None THEN IsoFormat(today) ELSE ret.date_str
            meals == ret.result.meals
        IN /\ ret.result.date = d
           /\ \A kj \in ViewsOf(meals) :
                meals[kj[1]][kj[2]].log_id \in LogsOfDate(d)
           /\ ret.date_str = None => ret.result = get_meals(IsoFormat(today))
    /\ ret.op = "today_summary" =>
        LET idx == {i \in LogsOfDate(IsoFormat(today)) : FoodExists(logs[i].food_id)}
            cal == [i \in idx |->
                (CHOOSE f \in foods : f.id = logs[i].food_id).calories
                    * logs[i].quantity]
        IN ret.result.totals.calories = SumOver(idx, cal)

(* get_meals() on the second day, the log holding an entry of each day *)
C6_Witness ==
    /\ ret.op = "get_meals"
    /\ ret.date_str = None
    /\ today = 2
    /\ \E i, j \in DOMAIN logs :
        /\ logs[i].log_date = IsoFormat(1)
        /\ logs[j].log_date = IsoFormat(2)
        /\ FoodExists(logs[i].food_id)
        /\ FoodExists(logs[j].food_id)

----------------------------------------------------------------------------
(* C7: get_meals(d) partitions the log entries of date d by meal label:     *)
(* every such entry is in exactly one group, the one keyed by its label (or *)
(* by "unspecified" for a null or empty label, the reading that agrees with *)
(* C8); no group is empty; each view carries the food's name and            *)
(* per-serving values and calories_total = calories_per_serving * quantity. *)
C7_GroupingPartition ==
    ret.op = "get_meals" =>
        LET meals == ret.result.meals
            views == ViewsOf(meals)
        IN /\ \A i \in LogsOfDate(ret.result.date) :
                LET at == {kj \in views : meals[kj[1]][kj[2]].log_id = logs[i].id}
                IN /\ Cardinality(at) = 1
                   /\ \A kj \in at :
                        \/ kj[1] = logs[i].meal
                        \/ logs[i].meal \in {None, ""} /\ kj[1] = "unspecified"
           /\ \A k \in DOMAIN meals : Len(meals[k]) > 0
           /\ \A kj \in views :
                LET v == meals[kj[1]][kj[2]] IN
                /\ v.calories_total = v.calories_per_serving * v.quantity
                /\ v.quantity = logs[v.log_id].quantity
                /\ \E f \in foods :
                    /\ f.id = logs[v.log_id].food_id
                    /\ v.food = f.name
                    /\ v.calories_per_serving = f.calories
                    /\ v.protein_per_serving = f.protein
                    /\ v.carbs_per_serving = f.carbs
                    /\ v.fat_per_serving = f.fat

----------------------------------------------------------------------------
(* C8: an entry logged without a meal, or whose stored meal is null or      *)
(* empty, is returned by get_meals for its date under the key               *)
(* "unspecified", the group of the entries logged with meal "unspecified".  *)
C8_DefaultMeal ==
    ret.op = "get_meals" =>
        LET meals == ret.result.meals IN
        \A i \in LogsOfDate(ret.result.date) :
            logs[i].meal \in {None, "", "unspecified"} =>
                /\ "unspecified" \in DOMAIN meals
                /\ \E j \in DOMAIN meals["unspecified"] :
                    meals["unspecified"][j].log_id = logs[i].id

----------------------------------------------------------------------------
(* C9: log_food running beside add_food calls on other connections looks up *)
(* the name and inserts the entry as one atomic step: the entry it has just *)
(* created references a food that exists at that moment.                    *)
C9_LogFoodAtomic ==
    (ret.op = "log_food" /\ ret.result.status = "ok") =>
        FoodExists(logs[Len(logs)].food_id)

----------------------------------------------------------------------------
(* C10: init_db run again leaves every foods row, every logs row and the    *)
(* goal unchanged; 2000 is written only when no goals row exists, as in the *)
(* first state.                                                             *)
C10_InitDbIdempotent ==
    /\ goals = {[id |-> 1, daily_calories |-> 2000]}
    /\ [][ret'.op = "init_db" =>
            /\ foods' = foods
            /\ logs' = logs
            /\ goals' = goals]_vars

(* init_db has just run on a store with foods, entries and a goal of 1500 *)
C10_Witness ==
    /\ ret.op = "init_db"
    /\ goals = {[id |-> 1, daily_calories |-> 1500]}
    /\ foods # {}
    /\ Len(logs) > 0

====
